---- MODULE Spec2Model ----
(***************************************************************************)
(* Model of powerpoint_extractor.py: the PowerPointExtractor class (the    *)
(* extraction operations over a loaded presentation) and the command-line  *)
(* driver main().                                                          *)
(*                                                                         *)
(* A string is a sequence of one-character strings, so that str.strip(),   *)
(* str.split('\n')[0] and " ".join() are computed character by character.  *)
(***************************************************************************)
EXTENDS Integers, Sequences, FiniteSets, TLC

VARIABLES file, presentation, ret, args, pc, stdout, written, exc, calls

vars == <<file, presentation, ret, args, pc, stdout, written, exc, calls>>

(***************************************************************************)
(* Bounds of the model.                                                    *)
(***************************************************************************)
\* the size of a presentation: its slides, their shapes and their notes
\* slides' shapes, counted together
MaxSize == 4
\* the size of a presentation the command-line driver is run on
MaxMainSize == 2

(***************************************************************************)
(* Program constants.                                                      *)
(***************************************************************************)
\* placeholder.type == 1
TitlePlaceholderType == 1
\* a placeholder type other than the title's (2, the body placeholder)
BodyPlaceholderType == 2
\* shape.shape_type == 13
PictureShapeType == 13
\* values of shape.shape_type other than the picture's: a placeholder's, a
\* text box's
PlaceholderShapeType == 14
TextBoxShapeType == 17

\* title = "No Title"
NoTitle == <<"N", "o", " ", "T", "i", "t", "l", "e">>

\* the characters str.strip() removes
Whitespace == {" ", "\n", "\t"}

(***************************************************************************)
(* str methods.                                                            *)
(***************************************************************************)
RECURSIVE lstrip(_)
lstrip(s) ==
    IF s = <<>> THEN <<>>
    ELSE IF Head(s) \in Whitespace THEN lstrip(Tail(s))
    ELSE s

RECURSIVE rstrip(_)
rstrip(s) ==
    IF s = <<>> THEN <<>>
    ELSE IF s[Len(s)] \in Whitespace THEN rstrip(SubSeq(s, 1, Len(s) - 1))
    ELSE s

\* s.strip()
strip(s) == rstrip(lstrip(s))

\* the first line not taken: s
split0Whole(s) == s

\* s.split('\n')[0]
RECURSIVE split0(_)
split0(s) ==
    IF s = <<>> THEN <<>>
    ELSE IF Head(s) = "\n" THEN <<>>
    ELSE <<Head(s)>> \o split0(Tail(s))

\* " ".join(parts)
RECURSIVE join(_)
join(parts) ==
    IF parts = <<>> THEN <<>>
    ELSE IF Len(parts) = 1 THEN parts[1]
    ELSE parts[1] \o <<" ">> \o join(Tail(parts))

(***************************************************************************)
(* The object graph the pptx library hands out: shapes, slides, notes      *)
(* slides, presentations.  has_text_attr is hasattr(shape, "text").        *)
(***************************************************************************)
MkShape(name, shape_type, is_placeholder, ph_type, has_text_attr, text, geom) ==
    [name |-> name, shape_type |-> shape_type, is_placeholder |-> is_placeholder,
     ph_type |-> ph_type, has_text_attr |-> has_text_attr, text |-> text,
     width |-> geom[1], height |-> geom[2], left |-> geom[3], top |-> geom[4]]

Picture(name, geom) ==
    MkShape(name, PictureShapeType, FALSE, 0, FALSE, <<>>, geom)
TitlePh(name, text) ==
    MkShape(name, PlaceholderShapeType, TRUE, TitlePlaceholderType, TRUE, text,
            <<8, 1, 1, 0>>)
BodyPh(name, text) ==
    MkShape(name, PlaceholderShapeType, TRUE, BodyPlaceholderType, TRUE, text,
            <<8, 5, 1, 2>>)
TextBox(name, text) ==
    MkShape(name, TextBoxShapeType, FALSE, 0, TRUE, text, <<3, 1, 2, 2>>)

\* texts of shapes: empty, whitespace only, one line, padded lines, the
\* title sentinel
TxtEmpty == <<>>
TxtBlank == <<" ", "\n">>
TxtOne == <<"c">>
TxtLines == <<" ", "a", " ", "\n", "b", "\n">>

ShapePool ==
    { Picture("Picture 1", <<2, 3, 0, 1>>),
      Picture("Picture 2", <<5, 4, 1, 1>>),
      TitlePh("Title 1", NoTitle),
      TitlePh("Title 1", TxtLines),
      TitlePh("Title 1", TxtBlank),
      BodyPh("Content 2", TxtEmpty),
      TextBox("TextBox 3", TxtBlank),
      TextBox("TextBox 3", TxtOne),
      TextBox("TextBox 3", TxtLines) }

NotesShapePool ==
    { BodyPh("Notes 2", TxtBlank),
      BodyPh("Notes 2", TxtOne),
      BodyPh("Notes 2", TxtLines) }

\* the sequences of exactly n elements of S
SeqsOfLen(S, n) == [1..n -> S]

\* slide.notes_slide: <<>> is None, <<n>> is the notes slide n
NoNotesSlide == <<>>
NotesSlide(shapes) == <<[shapes |-> shapes]>>

\* the slides of n shapes whose notes slide has k shapes (or, for k = 0, is
\* absent)
SlidesWith(n, k) ==
    { [shapes |-> s, layout_name |-> "Title and Content", notes_slide |-> ns] :
        s \in SeqsOfLen(ShapePool, n),
        ns \in IF k = 0 THEN {NoNotesSlide, NotesSlide(<<>>)}
               ELSE {NotesSlide(q) : q \in SeqsOfLen(NotesShapePool, k)} }

\* the sequences of exactly n slides holding at most b shapes together
RECURSIVE SlideSeqs(_, _)
SlideSeqs(n, b) ==
    IF n = 0 THEN {<<>>}
    ELSE UNION { UNION { { <<sl>> \o rest :
                             sl \in SlidesWith(i, k),
                             rest \in SlideSeqs(n - 1, b - i - k) } :
                         k \in 0..(b - i) } :
                 i \in 0..b }

\* the presentations of size at most b
Presentations(b) ==
    { [slides |-> ss, slide_width |-> 16, slide_height |-> 9] :
        ss \in UNION { SlideSeqs(m, b - m) : m \in 0..b } }

(***************************************************************************)
(* PowerPointExtractor.                                                    *)
(***************************************************************************)
\* hasattr(shape, "text") and shape.text.strip()
HasText(shape) == shape.has_text_attr /\ strip(shape.text) # <<>>

\* enumerate(self.presentation.slides), counting from 0
SlideNumberFromZero(i) == i - 1

\* enumerate(self.presentation.slides, 1)
SlideNumber(i) == i

\* extract_basic_info
extract_basic_info(path, p) ==
    [file_path |-> path,
     total_slides |-> Len(p.slides),
     slide_dimensions |-> [width |-> p.slide_width, height |-> p.slide_height]]

\* the inner loop of extract_all_text appending shape.text as it is
RECURSIVE SlideTextUntrimmed(_)
SlideTextUntrimmed(shapes) ==
    IF shapes = <<>> THEN <<>>
    ELSE (IF HasText(Head(shapes)) THEN <<Head(shapes).text>> ELSE <<>>)
         \o SlideTextUntrimmed(Tail(shapes))

\* extract_all_text: the inner loop over slide.shapes
RECURSIVE SlideText(_)
SlideText(shapes) ==
    IF shapes = <<>> THEN <<>>
    ELSE (IF HasText(Head(shapes)) THEN <<strip(Head(shapes).text)>> ELSE <<>>)
         \o SlideText(Tail(shapes))

\* extract_all_text: slide_info
SlideInfo(i, slide) ==
    LET slide_text == SlideText(slide.shapes)
    IN  [slide_number |-> SlideNumber(i),
         text_elements |-> slide_text,
         combined_text |-> join(slide_text)]

\* extract_all_text: all_text["all_text_combined"].extend(slide_text), slide
\* after slide
RECURSIVE AllTextCombined(_)
AllTextCombined(slides) ==
    IF slides = <<>> THEN <<>>
    ELSE SlideText(Head(slides).shapes) \o AllTextCombined(Tail(slides))

extract_all_text(p) ==
    [slides |-> [i \in 1..Len(p.slides) |-> SlideInfo(i, p.slides[i])],
     all_text_combined |-> AllTextCombined(p.slides)]

\* the first loop of extract_slide_titles with its break one level out: it
\* leaves at the first placeholder, whatever its type
RECURSIVE TitleScanFirstPlaceholder(_)
TitleScanFirstPlaceholder(shapes) ==
    IF shapes = <<>> THEN NoTitle
    ELSE LET shape == Head(shapes)
         IN  IF shape.is_placeholder
             THEN (IF shape.ph_type = TitlePlaceholderType /\ HasText(shape)
                   THEN strip(shape.text) ELSE NoTitle)
             ELSE TitleScanFirstPlaceholder(Tail(shapes))

\* extract_slide_titles: the first loop, from title = "No Title"
RECURSIVE TitleScan(_)
TitleScan(shapes) ==
    IF shapes = <<>> THEN NoTitle
    ELSE LET shape == Head(shapes)
         IN  IF shape.is_placeholder /\ shape.ph_type = TitlePlaceholderType
             THEN (IF HasText(shape) THEN strip(shape.text) ELSE NoTitle)
             ELSE TitleScan(Tail(shapes))

\* the second loop of extract_slide_titles leaving at the first placeholder
RECURSIVE FirstTextLineToPlaceholder(_)
FirstTextLineToPlaceholder(shapes) ==
    IF shapes = <<>> THEN NoTitle
    ELSE IF HasText(Head(shapes)) THEN split0(strip(Head(shapes).text))
    ELSE IF Head(shapes).is_placeholder THEN NoTitle
    ELSE FirstTextLineToPlaceholder(Tail(shapes))

\* extract_slide_titles: the second loop, run with title still "No Title"
RECURSIVE FirstTextLine(_)
FirstTextLine(shapes) ==
    IF shapes = <<>> THEN NoTitle
    ELSE IF HasText(Head(shapes)) THEN split0(strip(Head(shapes).text))
    ELSE FirstTextLine(Tail(shapes))

\* extract_slide_titles: the title of one slide
SlideTitle(shapes) ==
    LET title == TitleScan(shapes)
    IN  IF title = NoTitle THEN FirstTextLine(shapes) ELSE title

extract_slide_titles(p) ==
    [i \in 1..Len(p.slides) |->
        [slide_number |-> SlideNumber(i), title |-> SlideTitle(p.slides[i].shapes)]]

\* extract_images_info: image_info of a picture shape
ImageInfo(shape) ==
    [shape_name |-> shape.name, width |-> shape.width, height |-> shape.height,
     left |-> shape.left, top |-> shape.top]

\* extract_images_info: the inner loop over slide.shapes
RECURSIVE SlideImages(_)
SlideImages(shapes) ==
    IF shapes = <<>> THEN <<>>
    ELSE (IF Head(shapes).shape_type = PictureShapeType
          THEN <<ImageInfo(Head(shapes))>> ELSE <<>>)
         \o SlideImages(Tail(shapes))

\* the outer loop of extract_images_info without its test of slide_images
RECURSIVE ImagesFromEverySlide(_, _)
ImagesFromEverySlide(slides, i) ==
    IF i > Len(slides) THEN <<>>
    ELSE LET slide_images == SlideImages(slides[i].shapes)
         IN  <<[slide_number |-> SlideNumber(i),
                images |-> slide_images,
                image_count |-> Len(slide_images)]>>
             \o ImagesFromEverySlide(slides, i + 1)

\* extract_images_info: the outer loop, from slide i on
RECURSIVE ImagesFrom(_, _)
ImagesFrom(slides, i) ==
    IF i > Len(slides) THEN <<>>
    ELSE LET slide_images == SlideImages(slides[i].shapes)
         IN  (IF slide_images # <<>>
              THEN <<[slide_number |-> SlideNumber(i),
                      images |-> slide_images,
                      image_count |-> Len(slide_images)]>>
              ELSE <<>>)
             \o ImagesFrom(slides, i + 1)

extract_images_info(p) == ImagesFrom(p.slides, 1)

\* extract_notes: the inner loop, notes_text += shape.text.strip() + " "
RECURSIVE NotesText(_)
NotesText(shapes) ==
    IF shapes = <<>> THEN <<>>
    ELSE (IF HasText(Head(shapes)) THEN strip(Head(shapes).text) \o <<" ">>
          ELSE <<>>)
         \o NotesText(Tail(shapes))

\* extract_notes: notes_text of one slide
SlideNotesText(slide) ==
    IF slide.notes_slide # NoNotesSlide
    THEN NotesText(slide.notes_slide[1].shapes)
    ELSE <<>>

\* the outer loop of extract_notes recording notes_text without the strip
RECURSIVE NotesFromUntrimmed(_, _)
NotesFromUntrimmed(slides, i) ==
    IF i > Len(slides) THEN <<>>
    ELSE LET notes_text == SlideNotesText(slides[i])
         IN  (IF strip(notes_text) # <<>>
              THEN <<[slide_number |-> SlideNumber(i), notes |-> notes_text]>>
              ELSE <<>>)
             \o NotesFromUntrimmed(slides, i + 1)

\* extract_notes: the outer loop, from slide i on
RECURSIVE NotesFrom(_, _)
NotesFrom(slides, i) ==
    IF i > Len(slides) THEN <<>>
    ELSE LET notes_text == SlideNotesText(slides[i])
         IN  (IF strip(notes_text) # <<>>
              THEN <<[slide_number |-> SlideNumber(i), notes |-> strip(notes_text)]>>
              ELSE <<>>)
             \o NotesFrom(slides, i + 1)

extract_notes(p) == NotesFrom(p.slides, 1)

\* shape_info with has_text = hasattr(shape, "text") alone
ShapeInfoAttrOnly(shape) ==
    [name |-> shape.name,
     type |-> <<"str", shape.shape_type>>,
     has_text |-> shape.has_text_attr,
     is_placeholder |-> shape.is_placeholder]

\* extract_slide_layout_info: shape_info
ShapeInfo(shape) ==
    [name |-> shape.name,
     type |-> <<"str", shape.shape_type>>,
     has_text |-> HasText(shape),
     is_placeholder |-> shape.is_placeholder]

\* extract_slide_layout_info: slide_layout_info
SlideLayoutInfo(i, slide) ==
    [slide_number |-> SlideNumber(i),
     layout_name |-> slide.layout_name,
     shape_count |-> Len(slide.shapes),
     shapes |-> [k \in 1..Len(slide.shapes) |-> ShapeInfo(slide.shapes[k])]]

extract_slide_layout_info(p) ==
    [i \in 1..Len(p.slides) |-> SlideLayoutInfo(i, p.slides[i])]

extract_all_information(path, p) ==
    [basic_info |-> extract_basic_info(path, p),
     titles |-> extract_slide_titles(p),
     text_content |-> extract_all_text(p),
     images_info |-> extract_images_info(p),
     notes |-> extract_notes(p),
     layout_info |-> extract_slide_layout_info(p)]

(***************************************************************************)
(* The state.                                                              *)
(*   file          what the input path holds: nothing, something the       *)
(*                 library cannot load, or a presentation                  *)
(*   presentation  self.presentation: <<>> is None, <<p>> is p             *)
(*   ret           the value the last extraction returned                  *)
(*   args, pc      main(): the parsed arguments, the position              *)
(*   stdout        the lines printed                                       *)
(*   written       the files written                                       *)
(*   exc           the exception in flight                                 *)
(*   calls         the library and file operations main() has run, each    *)
(*                 with whether it returned (ok) or raised                 *)
(***************************************************************************)
InputPath == <<"/tmp", "deck", ".pptx">>
OutputArg == <<"out", "report", ".json">>

NoRet == [op |-> "none", value |-> <<>>]
NoArgs == [file_path |-> InputPath, output |-> <<>>,
           text_only |-> FALSE, titles_only |-> FALSE]

Files(docs) ==
    { [path |-> InputPath, kind |-> "missing", doc |-> <<>>],
      [path |-> InputPath, kind |-> "corrupt", doc |-> <<>>] }
    \cup { [path |-> InputPath, kind |-> "pptx", doc |-> <<d>>] : d \in docs }

\* print(f"Successfully loaded PowerPoint file: {self.file_path}")
LoadedMsg(path) == <<"Successfully loaded PowerPoint file: ", path>>

(***************************************************************************)
(* Spec: an extractor constructed on a presentation, and its methods       *)
(* called in any order.                                                    *)
(***************************************************************************)
Init ==
    /\ file \in { f \in Files(Presentations(MaxSize)) : f.kind = "pptx" }
    /\ presentation = file.doc
    /\ ret = NoRet
    /\ args = NoArgs
    /\ pc = "idle"
    /\ stdout = <<LoadedMsg(file.path)>>
    /\ written = {}
    /\ exc = <<>>
    /\ calls = <<>>

ExtractBasicInfo ==
    /\ pc = "idle"
    /\ ret' = [op |-> "extract_basic_info",
               value |-> extract_basic_info(file.path, presentation[1])]
    /\ UNCHANGED <<file, presentation, args, pc, stdout, written, exc, calls>>

ExtractAllText ==
    /\ pc = "idle"
    /\ ret' = [op |-> "extract_all_text",
               value |-> extract_all_text(presentation[1])]
    /\ UNCHANGED <<file, presentation, args, pc, stdout, written, exc, calls>>

ExtractSlideTitles ==
    /\ pc = "idle"
    /\ ret' = [op |-> "extract_slide_titles",
               value |-> extract_slide_titles(presentation[1])]
    /\ UNCHANGED <<file, presentation, args, pc, stdout, written, exc, calls>>

ExtractImagesInfo ==
    /\ pc = "idle"
    /\ ret' = [op |-> "extract_images_info",
               value |-> extract_images_info(presentation[1])]
    /\ UNCHANGED <<file, presentation, args, pc, stdout, written, exc, calls>>

ExtractNotes ==
    /\ pc = "idle"
    /\ ret' = [op |-> "extract_notes",
               value |-> extract_notes(presentation[1])]
    /\ UNCHANGED <<file, presentation, args, pc, stdout, written, exc, calls>>

ExtractSlideLayoutInfo ==
    /\ pc = "idle"
    /\ ret' = [op |-> "extract_slide_layout_info",
               value |-> extract_slide_layout_info(presentation[1])]
    /\ UNCHANGED <<file, presentation, args, pc, stdout, written, exc, calls>>

ExtractAllInformation ==
    /\ pc = "idle"
    /\ ret' = [op |-> "extract_all_information",
               value |-> extract_all_information(file.path, presentation[1])]
    /\ UNCHANGED <<file, presentation, args, pc, stdout, written, exc, calls>>

Next ==
    \/ ExtractBasicInfo
    \/ ExtractAllText
    \/ ExtractSlideTitles
    \/ ExtractImagesInfo
    \/ ExtractNotes
    \/ ExtractSlideLayoutInfo
    \/ ExtractAllInformation

Spec == Init /\ [][Next]_vars

(***************************************************************************)
(* SpecMain: one run of main().                                            *)
(***************************************************************************)
InitMain ==
    /\ file \in Files(Presentations(MaxMainSize))
    /\ presentation = <<>>
    /\ ret = NoRet
    /\ args \in [file_path : {InputPath}, output : {<<>>, OutputArg},
                 text_only : BOOLEAN, titles_only : BOOLEAN]
    /\ pc = "start"
    /\ stdout = <<>>
    /\ written = {}
    /\ exc = <<>>
    /\ calls = <<>>

Call(op, ok) == [op |-> op, ok |-> ok]

\* the try statement of main() holds every position from the construction
\* of the extractor on
InTry(at) == at \in {"construct", "text_only", "titles_only", "save", "summary"}

\* where an exception raised at a position takes main(): to the except
\* clause, or out of main()
OnRaise(at) == IF InTry(at) THEN "except" ELSE "raised"

\* an exception e raised by the operation op at the position at
Raise(at, op, e) ==
    /\ exc' = e
    /\ pc' = OnRaise(at)
    /\ calls' = Append(calls, Call(op, FALSE))

\* the check of the input path without its return statement
AfterMissingFallsThrough == "construct"

\* the position after a check of the input path that found no file: the
\* return statement
AfterMissing == "done"

\* if not os.path.exists(args.file_path): print, return
MainCheckPath ==
    /\ pc = "start"
    /\ IF file.kind = "missing"
       THEN /\ stdout' = Append(stdout, <<"Error: File '", args.file_path,
                                          "' does not exist.">>)
            /\ pc' = AfterMissing
       ELSE /\ pc' = "construct"
            /\ UNCHANGED stdout
    /\ UNCHANGED <<file, presentation, ret, args, written, exc, calls>>

\* the position after the construction of the extractor
Dispatch(a) ==
    IF a.text_only THEN "text_only"
    ELSE IF a.titles_only THEN "titles_only"
    ELSE "save"

\* extractor = PowerPointExtractor(args.file_path): load_presentation
MainConstruct ==
    /\ pc = "construct"
    /\ IF file.kind = "pptx"
       THEN /\ presentation' = file.doc
            /\ stdout' = Append(stdout, LoadedMsg(args.file_path))
            /\ calls' = Append(calls, Call("load", TRUE))
            /\ pc' = Dispatch(args)
            /\ UNCHANGED exc
       ELSE /\ Raise("construct", "load",
                     <<"Error loading PowerPoint file: ", file.kind>>)
            /\ UNCHANGED <<presentation, stdout>>
    /\ UNCHANGED <<file, ret, args, written>>

\* print(f"\nSlide {slide['slide_number']}:"); print(slide['combined_text'])
RECURSIVE TextLines(_)
TextLines(slides) ==
    IF slides = <<>> THEN <<>>
    ELSE << <<"\nSlide ", Head(slides).slide_number, ":">>,
            <<"", Head(slides).combined_text>> >> \o TextLines(Tail(slides))

\* the --text-only branch
MainTextOnly ==
    /\ pc = "text_only"
    /\ \E ok \in BOOLEAN :
         IF ok
         THEN LET text_info == extract_all_text(presentation[1])
              IN  /\ ret' = [op |-> "extract_all_text", value |-> text_info]
                  /\ calls' = Append(calls, Call("extract_all_text", TRUE))
                  /\ stdout' = stdout \o << <<"\n=== EXTRACTED TEXT ===">> >>
                                      \o TextLines(text_info.slides)
                  /\ pc' = "done"
                  /\ UNCHANGED exc
         ELSE /\ Raise("text_only", "extract_all_text", <<"pptx error">>)
              /\ UNCHANGED <<ret, stdout>>
    /\ UNCHANGED <<file, presentation, args, written>>

\* print(f"Slide {title_info['slide_number']}: {title_info['title']}")
TitleLines(titles) ==
    [i \in 1..Len(titles) |-> <<"Slide ", titles[i].slide_number, ": ", titles[i].title>>]

\* the --titles-only branch
MainTitlesOnly ==
    /\ pc = "titles_only"
    /\ \E ok \in BOOLEAN :
         IF ok
         THEN LET titles == extract_slide_titles(presentation[1])
              IN  /\ ret' = [op |-> "extract_slide_titles", value |-> titles]
                  /\ calls' = Append(calls, Call("extract_slide_titles", TRUE))
                  /\ stdout' = stdout \o << <<"\n=== SLIDE TITLES ===">> >>
                                      \o TitleLines(titles)
                  /\ pc' = "done"
                  /\ UNCHANGED exc
         ELSE /\ Raise("titles_only", "extract_slide_titles", <<"pptx error">>)
              /\ UNCHANGED <<ret, stdout>>
    /\ UNCHANGED <<file, presentation, args, written>>

\* save_to_json: the output file when none is given
DefaultOutput(path) == <<"slides", path[2] \o "_extracted_info", ".json">>

\* save_to_json: output_file
OutputFile(a) == IF a.output = <<>> THEN DefaultOutput(a.file_path) ELSE a.output

\* the default branch: output_file = extractor.save_to_json(args.output)
MainSave ==
    /\ pc = "save"
    /\ LET output_file == OutputFile(args)
           all_info == extract_all_information(args.file_path, presentation[1])
       IN  \E outcome \in {"ok", "extract raises", "open raises", "dump raises"} :
             CASE outcome = "extract raises" ->
                    /\ Raise("save", "extract_all_information", <<"pptx error">>)
                    /\ UNCHANGED <<ret, stdout, written>>
               [] outcome = "open raises" ->
                    /\ exc' = <<"No such file or directory: ", output_file>>
                    /\ pc' = OnRaise("save")
                    /\ calls' = calls \o <<Call("extract_all_information", TRUE),
                                           Call("open", FALSE)>>
                    /\ UNCHANGED <<ret, stdout, written>>
               [] outcome = "dump raises" ->
                    /\ exc' = <<"json error">>
                    /\ pc' = OnRaise("save")
                    /\ calls' = calls \o <<Call("extract_all_information", TRUE),
                                           Call("open", TRUE),
                                           Call("dump", FALSE)>>
                    /\ written' = written \cup
                         {[path |-> output_file, complete |-> FALSE, content |-> <<>>]}
                    /\ UNCHANGED <<ret, stdout>>
               [] outcome = "ok" ->
                    /\ calls' = calls \o <<Call("extract_all_information", TRUE),
                                           Call("open", TRUE),
                                           Call("dump", TRUE)>>
                    /\ written' = written \cup
                         {[path |-> output_file, complete |-> TRUE,
                           content |-> <<all_info>>]}
                    /\ stdout' = Append(stdout,
                         <<"Extracted information saved to: ", output_file>>)
                    /\ ret' = [op |-> "save_to_json", value |-> output_file]
                    /\ pc' = "summary"
                    /\ UNCHANGED exc
    /\ UNCHANGED <<file, presentation, args>>

\* the default branch: the summary
MainSummary ==
    /\ pc = "summary"
    /\ \E ok \in BOOLEAN :
         IF ok
         THEN LET basic_info == extract_basic_info(args.file_path, presentation[1])
              IN  /\ calls' = Append(calls, Call("extract_basic_info", TRUE))
                  /\ stdout' = stdout \o
                       << <<"\n=== SUMMARY ===">>,
                          <<"File: ", basic_info.file_path>>,
                          <<"Total slides: ", basic_info.total_slides>>,
                          <<"Dimensions: ", basic_info.slide_dimensions.width, " x ",
                            basic_info.slide_dimensions.height>>,
                          <<"Full extraction saved to: ", ret.value>> >>
                  /\ pc' = "done"
                  /\ UNCHANGED exc
         ELSE /\ Raise("summary", "extract_basic_info", <<"pptx error">>)
              /\ UNCHANGED stdout
    /\ UNCHANGED <<file, presentation, ret, args, written>>

\* except Exception as e: print(f"Error: {e}")
MainExcept ==
    /\ pc = "except"
    /\ stdout' = Append(stdout, <<"Error: ", exc>>)
    /\ pc' = "done"
    /\ UNCHANGED <<file, presentation, ret, args, written, exc, calls>>

NextMain ==
    \/ MainCheckPath
    \/ MainConstruct
    \/ MainTextOnly
    \/ MainTitlesOnly
    \/ MainSave
    \/ MainSummary
    \/ MainExcept

SpecMain == InitMain /\ [][NextMain]_vars

(***************************************************************************)
(* The vocabulary of the claims, stated on the presentation and not by     *)
(* the loops of the code.                                                  *)
(***************************************************************************)
Min(S) == CHOOSE x \in S : \A y \in S : x <= y
Max(S) == CHOOSE x \in S : \A y \in S : y <= x

\* the text s without its leading and trailing whitespace
Trimmed(s) ==
    LET ink == { i \in 1..Len(s) : s[i] \notin Whitespace }
    IN  IF ink = {} THEN <<>> ELSE SubSeq(s, Min(ink), Max(ink))

\* the text before the first newline of t
FirstLineOf(t) ==
    LET nl == { i \in 1..Len(t) : t[i] = "\n" }
    IN  IF nl = {} THEN t ELSE SubSeq(t, 1, Min(nl) - 1)

\* the shape exposes text that is non-empty after trimming
Visible(shape) == shape.has_text_attr /\ Trimmed(shape.text) # <<>>

VisibleAt(shapes) == { k \in 1..Len(shapes) : Visible(shapes[k]) }
PlaceholdersAt(shapes) == { k \in 1..Len(shapes) : shapes[k].is_placeholder }
TitlePlaceholdersAt(shapes) ==
    { k \in PlaceholdersAt(shapes) : shapes[k].ph_type = 1 }
PicturesAt(shapes) == { k \in 1..Len(shapes) : shapes[k].shape_type = 13 }

\* the k-th element of the set of indices S, in increasing order
RECURSIVE Nth(_, _)
Nth(S, k) == IF k = 1 THEN Min(S) ELSE Nth(S \ {Min(S)}, k - 1)

\* the trimmed texts of the shapes with visible text, in shape order
Fragments(shapes) ==
    [j \in 1..Cardinality(VisibleAt(shapes)) |->
        Trimmed(shapes[Nth(VisibleAt(shapes), j)].text)]

\* the fragments joined by single spaces
RECURSIVE Spaced(_)
Spaced(frags) ==
    IF frags = <<>> THEN <<>>
    ELSE IF Len(frags) = 1 THEN frags[1]
    ELSE Spaced(SubSeq(frags, 1, Len(frags) - 1)) \o <<" ">> \o frags[Len(frags)]

\* the fallback title: the first line of the first visible text, else the
\* sentinel
FallbackTitle(shapes) ==
    IF VisibleAt(shapes) = {} THEN NoTitle
    ELSE FirstLineOf(Trimmed(shapes[Min(VisibleAt(shapes))].text))

Slides == presentation[1].slides
NumSlides == Len(Slides)

HasTitles == ret.op \in {"extract_slide_titles", "extract_all_information"}
Titles == IF ret.op = "extract_slide_titles" THEN ret.value ELSE ret.value.titles

HasTextContent == ret.op \in {"extract_all_text", "extract_all_information"}
TextContent ==
    IF ret.op = "extract_all_text" THEN ret.value ELSE ret.value.text_content

HasImages == ret.op \in {"extract_images_info", "extract_all_information"}
Images == IF ret.op = "extract_images_info" THEN ret.value ELSE ret.value.images_info

HasNotes == ret.op \in {"extract_notes", "extract_all_information"}
Notes == IF ret.op = "extract_notes" THEN ret.value ELSE ret.value.notes

HasLayout == ret.op \in {"extract_slide_layout_info", "extract_all_information"}
Layout ==
    IF ret.op = "extract_slide_layout_info" THEN ret.value ELSE ret.value.layout_info

\* a placeholder of another type comes before a title placeholder
NonTitleFirst(shapes) ==
    /\ TitlePlaceholdersAt(shapes) # {}
    /\ Min(PlaceholdersAt(shapes)) < Min(TitlePlaceholdersAt(shapes))

(***************************************************************************)
(* C1 as stated: on a slide where a placeholder of a type other than 1     *)
(* comes before a type-1 placeholder, the title is the one the fallback    *)
(* decides (the first line of the first visible text, else "No Title").    *)
(***************************************************************************)
C1_HaltsAtFirstPlaceholder ==
    HasTitles =>
        \A i \in 1..NumSlides :
            NonTitleFirst(Slides[i].shapes) =>
                Titles[i].title = FallbackTitle(Slides[i].shapes)

(***************************************************************************)
(* C1 amended: the scan passes the placeholders of other types and halts   *)
(* at the first type-1 placeholder.  On a slide where a placeholder of     *)
(* another type comes first, the title is the trimmed text of the first    *)
(* type-1 placeholder when that text is non-empty and is not "No Title",   *)
(* and the fallback's title otherwise.                                     *)
(***************************************************************************)
C1_HaltsAtFirstTitlePlaceholder ==
    HasTitles =>
        \A i \in 1..NumSlides :
            LET shapes == Slides[i].shapes
                t == shapes[Min(TitlePlaceholdersAt(shapes))]
            IN  NonTitleFirst(shapes) =>
                    Titles[i].title =
                        IF Visible(t) /\ Trimmed(t.text) # NoTitle
                        THEN Trimmed(t.text)
                        ELSE FallbackTitle(shapes)

\* a title taken from a type-1 placeholder behind a placeholder of another
\* type, where the fallback would have given another title
C1_Witness ==
    /\ HasTitles
    /\ \E i \in 1..NumSlides :
        LET shapes == Slides[i].shapes
        IN  /\ NonTitleFirst(shapes)
            /\ Titles[i].title =
                 Trimmed(shapes[Min(TitlePlaceholdersAt(shapes))].text)
            /\ Titles[i].title # FallbackTitle(shapes)

\* the first shape is a placeholder of a type other than 1 without visible
\* text, and the slide has no other placeholder
LonePlaceholderFirst(shapes) ==
    /\ PlaceholdersAt(shapes) = {1}
    /\ shapes[1].ph_type # 1
    /\ ~Visible(shapes[1])

(***************************************************************************)
(* C2 as stated: a slide whose first shape is a textless placeholder of a  *)
(* type other than 1, and which has no other placeholder, has the title    *)
(* "No Title".                                                             *)
(***************************************************************************)
C2_NoTitleBehindPlaceholder ==
    HasTitles =>
        \A i \in 1..NumSlides :
            LonePlaceholderFirst(Slides[i].shapes) => Titles[i].title = NoTitle

(***************************************************************************)
(* C2 amended: such a slide has the title "No Title" only when none of its *)
(* shapes has visible text; when one has, the title is the first line of   *)
(* the trimmed text of the first such shape.                               *)
(***************************************************************************)
C2_FallbackBehindPlaceholder ==
    HasTitles =>
        \A i \in 1..NumSlides :
            LET shapes == Slides[i].shapes
            IN  LonePlaceholderFirst(shapes) =>
                    IF VisibleAt(shapes) = {}
                    THEN Titles[i].title = NoTitle
                    ELSE Titles[i].title =
                           FirstLineOf(Trimmed(shapes[Min(VisibleAt(shapes))].text))

\* a later shape's text became the title of such a slide
C2_Witness ==
    /\ HasTitles
    /\ \E i \in 1..NumSlides :
        /\ LonePlaceholderFirst(Slides[i].shapes)
        /\ VisibleAt(Slides[i].shapes) # {}
        /\ Titles[i].title # NoTitle

(***************************************************************************)
(* C3 as stated: on a slide whose first placeholder has type 1 and         *)
(* non-empty trimmed text T, the title is T, whatever T is and whatever    *)
(* the other shapes are.                                                   *)
(***************************************************************************)
C3_TitlePlaceholderText ==
    HasTitles =>
        \A i \in 1..NumSlides :
            LET shapes == Slides[i].shapes
                first == shapes[Min(PlaceholdersAt(shapes))]
            IN  (/\ PlaceholdersAt(shapes) # {}
                 /\ first.ph_type = 1
                 /\ Visible(first))
                => Titles[i].title = Trimmed(first.text)

(***************************************************************************)
(* C4: on a slide without placeholders the title is the text before the    *)
(* first newline of the trimmed text of the first shape with visible text, *)
(* and "No Title" when no shape has visible text.                          *)
(***************************************************************************)
C4_NoPlaceholders ==
    HasTitles =>
        \A i \in 1..NumSlides :
            LET shapes == Slides[i].shapes
            IN  PlaceholdersAt(shapes) = {} =>
                    IF VisibleAt(shapes) = {}
                    THEN Titles[i].title = NoTitle
                    ELSE Titles[i].title =
                           FirstLineOf(Trimmed(shapes[Min(VisibleAt(shapes))].text))

\* a slide without placeholders whose first visible text has several lines,
\* of which the title is the first
C4_Witness ==
    /\ HasTitles
    /\ \E i \in 1..NumSlides :
        LET shapes == Slides[i].shapes
        IN  /\ PlaceholdersAt(shapes) = {}
            /\ VisibleAt(shapes) # {}
            /\ Min(VisibleAt(shapes)) > 1
            /\ Titles[i].title # Trimmed(shapes[Min(VisibleAt(shapes))].text)
            /\ Titles[i].title = <<"a", " ">>

\* the section has one entry per slide, numbered 1, 2, ..., in order
Numbered(section) ==
    /\ Len(section) = NumSlides
    /\ \A i \in 1..NumSlides : section[i].slide_number = i

(***************************************************************************)
(* C5: titles, text_content.slides and layout_info each have one entry per *)
(* slide, with the slide numbers 1..N in order, so that a slide has the    *)
(* same number in every section of the report.                             *)
(***************************************************************************)
C5_Ordinals ==
    /\ HasTitles => Numbered(Titles)
    /\ HasTextContent => Numbered(TextContent.slides)
    /\ HasLayout => Numbered(Layout)

\* a report on several slides, one of them without shapes
C5_Witness ==
    /\ ret.op = "extract_all_information"
    /\ NumSlides >= 2
    /\ \E i \in 1..NumSlides : Slides[i].shapes = <<>>
    /\ \E i \in 1..NumSlides : VisibleAt(Slides[i].shapes) # {}

\* the concatenation of the text_elements of the entries, in order
RECURSIVE Flattened(_)
Flattened(entries) ==
    IF entries = <<>> THEN <<>>
    ELSE Flattened(SubSeq(entries, 1, Len(entries) - 1))
         \o entries[Len(entries)].text_elements

(***************************************************************************)
(* C6: text_elements is the sequence of the trimmed texts of the slide's   *)
(* shapes with visible text, in shape order, each kept whole;              *)
(* combined_text is these joined by single spaces; all_text_combined is    *)
(* the concatenation of the slides' text_elements in slide order.          *)
(***************************************************************************)
C6_AllText ==
    HasTextContent =>
        /\ Len(TextContent.slides) = NumSlides
        /\ \A i \in 1..NumSlides :
            /\ TextContent.slides[i].text_elements = Fragments(Slides[i].shapes)
            /\ TextContent.slides[i].combined_text =
                 Spaced(Fragments(Slides[i].shapes))
        /\ TextContent.all_text_combined = Flattened(TextContent.slides)

\* two slides with different texts, one of them with a newline inside
C6_Witness ==
    /\ ret.op = "extract_all_text"
    /\ Len(ret.value.all_text_combined) = 2
    /\ ret.value.all_text_combined[1] # ret.value.all_text_combined[2]
    /\ \E i, j \in 1..NumSlides :
        /\ i < j
        /\ ret.value.slides[i].text_elements # <<>>
        /\ ret.value.slides[j].text_elements # <<>>
    /\ \E k \in 1..Len(ret.value.all_text_combined) :
        \E m \in 1..Len(ret.value.all_text_combined[k]) :
            ret.value.all_text_combined[k][m] = "\n"

\* the record of a picture shape
PictureRecord(shape) ==
    [shape_name |-> shape.name, width |-> shape.width, height |-> shape.height,
     left |-> shape.left, top |-> shape.top]

(***************************************************************************)
(* C7: images_info has an entry for a slide exactly when the slide has a   *)
(* picture; the entries are in strictly increasing slide order; an entry   *)
(* holds one record per picture of its slide, in shape order, and          *)
(* image_count is their number, at least 1; there are at most N entries.   *)
(***************************************************************************)
C7_Images ==
    HasImages =>
        /\ { Images[e].slide_number : e \in 1..Len(Images) } =
             { i \in 1..NumSlides : PicturesAt(Slides[i].shapes) # {} }
        /\ \A e, f \in 1..Len(Images) :
             e < f => Images[e].slide_number < Images[f].slide_number
        /\ \A e \in 1..Len(Images) :
             LET shapes == Slides[Images[e].slide_number].shapes
                 pics == PicturesAt(shapes)
             IN  /\ Images[e].image_count = Len(Images[e].images)
                 /\ Images[e].image_count >= 1
                 /\ Images[e].images =
                      [j \in 1..Cardinality(pics) |-> PictureRecord(shapes[Nth(pics, j)])]
        /\ Len(Images) <= NumSlides

\* a slide with two different pictures reported, a slide without pictures
\* left out
C7_Witness ==
    /\ ret.op = "extract_images_info"
    /\ Len(ret.value) < NumSlides
    /\ \E e \in 1..Len(ret.value) :
        /\ ret.value[e].image_count = 2
        /\ ret.value[e].images[1] # ret.value[e].images[2]

\* the shapes of the slide's notes slide; none when it has no notes slide
NotesShapes(slide) ==
    IF slide.notes_slide = <<>> THEN <<>> ELSE slide.notes_slide[1].shapes

(***************************************************************************)
(* C8: notes has an entry for a slide exactly when the slide has a notes   *)
(* slide with a shape of visible text; the entry's notes are the trimmed   *)
(* texts of these shapes, in shape order, joined by single spaces, with no *)
(* space before or after.                                                  *)
(***************************************************************************)
C8_Notes ==
    HasNotes =>
        /\ { Notes[e].slide_number : e \in 1..Len(Notes) } =
             { i \in 1..NumSlides : VisibleAt(NotesShapes(Slides[i])) # {} }
        /\ \A e, f \in 1..Len(Notes) :
             e < f => Notes[e].slide_number < Notes[f].slide_number
        /\ \A e \in 1..Len(Notes) :
             Notes[e].notes =
                Spaced(Fragments(NotesShapes(Slides[Notes[e].slide_number])))

\* notes joined from two shapes, and a slide whose notes slide has no
\* visible text left out
C8_Witness ==
    /\ ret.op = "extract_notes"
    /\ \E e \in 1..Len(ret.value) :
        Cardinality(VisibleAt(NotesShapes(Slides[ret.value[e].slide_number]))) = 2
    /\ \E i \in 1..NumSlides :
        /\ Slides[i].notes_slide # <<>>
        /\ \A e \in 1..Len(ret.value) : ret.value[e].slide_number # i

(***************************************************************************)
(* C9: shape_count is the number of descriptors; the descriptors follow    *)
(* the shape order; has_text of the k-th is true exactly when the k-th     *)
(* shape has visible text; so the descriptors with has_text true are as    *)
(* many as the text_elements all_text() reports for the slide.             *)
(***************************************************************************)
C9_Layout ==
    HasLayout =>
        \A i \in 1..Len(Layout) :
            LET shapes == Slides[i].shapes
                info == Layout[i]
            IN  /\ info.shape_count = Len(info.shapes)
                /\ Len(info.shapes) = Len(shapes)
                /\ \A k \in 1..Len(shapes) :
                     /\ info.shapes[k].name = shapes[k].name
                     /\ info.shapes[k].is_placeholder = shapes[k].is_placeholder
                     /\ info.shapes[k].has_text = Visible(shapes[k])
                /\ ret.op = "extract_all_information" =>
                     Cardinality({ k \in 1..Len(info.shapes) : info.shapes[k].has_text })
                       = Len(ret.value.text_content.slides[i].text_elements)

\* a report on a slide with a shape of visible text and a shape whose text
\* is whitespace
C9_Witness ==
    /\ ret.op = "extract_all_information"
    /\ \E i \in 1..NumSlides :
        \E k, m \in 1..Len(Slides[i].shapes) :
            /\ ret.value.layout_info[i].shapes[k].has_text
            /\ ~ret.value.layout_info[i].shapes[m].has_text
            /\ Slides[i].shapes[m].has_text_attr

\* the line is an error message
IsError(line) == line[1] \in {"Error: File '", "Error: "}
ErrorsAt(lines) == { k \in 1..Len(lines) : IsError(lines[k]) }
FailedAt(cs) == { k \in 1..Len(cs) : ~cs[k].ok }

(***************************************************************************)
(* C10: no exception leaves main().  At its end: when the input path does  *)
(* not exist, one error has been printed and nothing was loaded, extracted *)
(* or written; when the load, an extraction or the write failed, exactly   *)
(* one error message has been printed, last, and the failed operation is   *)
(* the last one that was run.                                              *)
(***************************************************************************)
C10_MainErrors ==
    /\ pc # "raised"
    /\ pc = "done" =>
        /\ file.kind = "missing" =>
            /\ Len(stdout) = 1 /\ IsError(stdout[1])
            /\ presentation = <<>>
            /\ ret = NoRet
            /\ written = {}
            /\ calls = <<>>
        /\ FailedAt(calls) # {} =>
            /\ FailedAt(calls) = {Len(calls)}
            /\ ErrorsAt(stdout) = {Len(stdout)}

\* a run that ended after its write failed half-way
C10_Witness ==
    /\ pc = "done"
    /\ FailedAt(calls) # {}
    /\ calls[Len(calls)].op = "dump"
    /\ written # {}

====
